---- MODULE Spec2Model ----
(***************************************************************************)
(* Model of cpc/eval/ABX/abx_group_computation.py: the ABX group scorer    *)
(* (check_dtw_group_validity, get_distance_group_dtw,                      *)
(* get_theta_group_dtw, loc_dtw) and the process pool that evaluates a     *)
(* sequence of groups (worker, get_abx_scores_dtw_on_group).               *)
(*                                                                         *)
(* Tensors are modelled by their shapes (a.size() is a sequence of         *)
(* naturals), alignment-cost matrices by functions over 1-based index      *)
(* pairs, and scores by exact fractions [num, den]; den = 0 is the         *)
(* non-finite float (nan or +-inf) a division by zero produces.            *)
(***************************************************************************)
EXTENDS Integers, Sequences, FiniteSets, TLC

VARIABLES
    \* ---- the scorer functions, called on their own ----
    args,             \* the arguments of the call: shapes, size vectors, flag
    ret,              \* what the call did: [fn |-> "none"] before the call
    \* ---- get_abx_scores_dtw_on_group and its workers ----
    group_iterator,   \* the group sequence: a sequence of group ids
    nprocess,         \* the nprocess argument
    symmetric,        \* the symmetric argument
    jobs,             \* has p.submit() been done for every rank
    wpos,             \* wpos[r]: the next index worker r enumerates
    wstate,           \* wstate[r]: "idle" | "running" | "done" | "raised"
    worker_data,      \* worker_data[r]: the list worker r builds
    evaluated,        \* evaluated[r]: the indices worker r called loc_dtw on
    main_pc,          \* where get_abx_scores_dtw_on_group is
    next_job,         \* the job whose result() is awaited next
    all_worker_data,  \* the merged list
    coords_list,
    data_list,
    result            \* the sparse tensor returned, or [kind |-> "none"]

vars == <<args, ret, group_iterator, nprocess, symmetric, jobs, wpos, wstate,
          worker_data, evaluated, main_pc, next_job, all_worker_data, coords_list,
          data_list, result>>

fn_vars == <<args, ret>>

pool_vars == <<group_iterator, nprocess, symmetric, jobs, wpos, wstate,
               worker_data, evaluated, main_pc, next_job, all_worker_data, coords_list,
               data_list, result>>

(***************************************************************************)
(* Bounds                                                                  *)
(***************************************************************************)
\* largest batch size of group A and of group X
MaxN == 2
\* largest batch size of group B
MaxNb == 2
\* most alignment costs the aligner reports for one triplet: Nx * (Na + Nb)
MaxCells == 12
\* longest group sequence
MaxLen == 3
\* largest number of worker processes
MaxProc == 3

\* alignment costs the aligner may report
DistValues == {0, 1}
\* feature dimensions of the batches
FeatureDims == {1, 2}

(***************************************************************************)
(* Shapes                                                                  *)
(***************************************************************************)
\* a batch of n sequences: Batch x Seq x Channel, or Batch x Seq at rank 2
Shapes(maxn) ==
    {<<n, 1>> : n \in 1..maxn} \cup
    {<<n, 1, d>> : n \in 1..maxn, d \in FeatureDims}

\* all alignment-cost matrices with n1 rows and n2 columns
Matrices(n1, n2) == [(1..n1) \X (1..n2) -> DistValues]

NoMat == <<>>

(***************************************************************************)
(* check_dtw_group_validity(a, b, x): the failure it ends in, or "ok".     *)
(* a.size(2) of a tensor of rank 2 raises IndexError.                      *)
(***************************************************************************)
\* the check with the comparison of A against X left out
check_without_x(a, b, x) ==
    IF Len(a) # Len(b) THEN "AssertionError"
    ELSE IF Len(a) < 3 THEN "IndexError"
    ELSE IF a[3] # b[3] THEN "AssertionError"
    ELSE "ok"

check_dtw_group_validity(a, b, x) ==
    IF Len(a) # Len(b) THEN "AssertionError"
    ELSE IF Len(a) # Len(x) THEN "AssertionError"
    ELSE IF Len(a) < 3 THEN "IndexError"
    ELSE IF a[3] # x[3] THEN "AssertionError"
    ELSE IF a[3] # b[3] THEN "AssertionError"
    ELSE "ok"

(***************************************************************************)
(* dtw.dtw_batch: the aligner. It returns some matrix of shape (N1, N2);   *)
(* `cost` is the matrix it returns for these batches, chosen by the        *)
(* caller of the model over all matrices of that shape.                    *)
(***************************************************************************)
dtw_batch(N1, N2, cost, ignore_diag, symetric) ==
    [p \in (1..N1) \X (1..N2) |-> cost[p]]

(***************************************************************************)
(* get_distance_group_dtw(a1, a2, size1, size2, ...): size1 and size2 are  *)
(* the lengths of the two size vectors. The result holds the events in     *)
(* the order they happen: "print" for each diagnostic line, "assert" for  *)
(* the assertion that fails, then the two calls.                           *)
(***************************************************************************)
SizeDiagnostic(a1, size1) == size1 # a1[1]

get_distance_group_dtw(a1, a2, size1, size2, ignore_diag, symetric, cost) ==
    IF Len(a1) # 3 \/ Len(a2) # 3
    THEN [status |-> "ValueError", trace |-> <<>>, mat |-> NoMat]
    ELSE
      LET N1 == a1[1]
          N2 == a2[1]
          log == IF SizeDiagnostic(a1, size1) THEN <<"print", "print">> ELSE <<>>
      IN  IF size1 # N1
          THEN [status |-> "AssertionError", trace |-> log \o <<"assert">>,
                mat |-> NoMat]
          ELSE IF size2 # N2
          THEN [status |-> "AssertionError", trace |-> log \o <<"assert">>,
                mat |-> NoMat]
          ELSE [status |-> "ok",
                trace |-> log \o <<"distance_function", "dtw_batch">>,
                mat |-> dtw_batch(N1, N2, cost, ignore_diag, symetric)]

(***************************************************************************)
(* The scoring part of get_theta_group_dtw (lines 74-91).                  *)
(***************************************************************************)
\* dxb.max().item()
MatMax(m) ==
    CHOOSE v \in {m[p] : p \in DOMAIN m} : \A p \in DOMAIN m : m[p] <= v

\* n_pos
n_pos(Na, Nx, sym) == IF sym THEN Na * (Na - 1) ELSE Na * Nx

\* the diagonal written with max_val instead of max_val + 1
DiagValueNoIncrement(dxb) == MatMax(dxb)

\* the value written on the diagonal
DiagValue(dxb) == MatMax(dxb) + 1

\* for i in range(Na): dxa[i, i] = max_val + 1
OverwriteDiag(dxa, dxb, Na) ==
    [p \in DOMAIN dxa |->
        IF p[1] = p[2] /\ p[1] <= Na THEN DiagValue(dxb) ELSE dxa[p]]

\* (dxa < dxb).sum(), over the broadcast shape (Nx, Na, Nb)
Wins(dxa, dxb, Nx, Na, Nb) ==
    Cardinality({t \in (1..Nx) \X (1..Na) \X (1..Nb) :
                    dxa[<<t[1], t[2]>>] < dxb[<<t[1], t[3]>>]})

\* (dxa == dxb).sum()
Ties(dxa, dxb, Nx, Na, Nb) ==
    Cardinality({t \in (1..Nx) \X (1..Na) \X (1..Nb) :
                    dxa[<<t[1], t[2]>>] = dxb[<<t[1], t[3]>>]})

\* sc = wins + 0.5 * ties; sc /= n_pos * Nb   (as the fraction 2sc / 2(n_pos Nb))
Score(dxa, dxb, Nx, Na, Nb, sym) ==
    [num |-> 2 * Wins(dxa, dxb, Nx, Na, Nb) + Ties(dxa, dxb, Nx, Na, Nb),
     den |-> 2 * n_pos(Na, Nx, sym) * Nb]

NoScore == [num |-> 0, den |-> 1]

Failed(status, trace) ==
    [status |-> status, trace |-> trace, theta |-> NoScore,
     dxa |-> NoMat, dxb |-> NoMat]

(***************************************************************************)
(* get_theta_group_dtw(a, b, x, sa, sb, sx, distance_function, symmetric). *)
(* cxb and cxa are the matrices the aligner returns for (x, b) and (x, a). *)
(***************************************************************************)
get_theta_group_dtw(a, b, x, sa, sb, sx, sym, cxb, cxa) ==
    LET valid == check_dtw_group_validity(a, b, x)
    IN
    IF valid # "ok" THEN Failed(valid, <<>>)
    ELSE
    LET rxb == get_distance_group_dtw(x, b, sx, sb, FALSE, FALSE, cxb)
    IN
    IF rxb.status # "ok" THEN Failed(rxb.status, rxb.trace)
    ELSE
    LET rxa == get_distance_group_dtw(x, a, sx, sa, sym, sym, cxa)
        tr  == rxb.trace \o rxa.trace
    IN
    IF rxa.status # "ok" THEN Failed(rxa.status, tr)
    ELSE
    LET Nx == x[1]
        Na == a[1]
        Nb == b[1]
    IN
    IF sym /\ Na > Nx
    THEN \* dxa[i, i] with i >= Nx is out of the matrix
         Failed("IndexError", tr)
    ELSE
    LET dxb == rxb.mat
        dxa == IF sym THEN OverwriteDiag(rxa.mat, dxb, Na) ELSE rxa.mat
    IN  [status |-> "ok", trace |-> tr,
         theta |-> Score(dxa, dxb, Nx, Na, Nb, sym),
         dxa |-> dxa, dxb |-> dxb]

\* 1 - theta
Complement(theta) == [num |-> theta.den - theta.num, den |-> theta.den]

(***************************************************************************)
(* loc_dtw(data, distance_function, symmetric): data is a group unit       *)
(* [coords, a, b, x, sa, sb, sx] with the aligner's two matrices for it.   *)
(***************************************************************************)
loc_dtw(data, sym, cxb, cxa) ==
    LET t == get_theta_group_dtw(data.a, data.b, data.x,
                                 data.sa, data.sb, data.sx, sym, cxb, cxa)
    IN  IF t.status # "ok"
        THEN [status |-> t.status, value |-> <<>>]
        ELSE [status |-> "ok", value |-> <<data.coords, Complement(t.theta)>>]

(***************************************************************************)
(* The group iterator: the units it can yield, and its board size.         *)
(* Unit 1 and unit 2 are well formed; in unit 3 the feature dimension of   *)
(* X differs from that of A and B.                                         *)
(***************************************************************************)
Mat22(v11, v12, v21, v22) ==
    [p \in (1..2) \X (1..2) |->
        IF p = <<1, 1>> THEN v11 ELSE IF p = <<1, 2>> THEN v12
        ELSE IF p = <<2, 1>> THEN v21 ELSE v22]

Mat21(v11, v21) == [p \in (1..2) \X (1..1) |-> IF p = <<1, 1>> THEN v11 ELSE v21]

Groups ==
    <<[coords |-> <<1, 0>>, a |-> <<2, 1, 1>>, b |-> <<1, 1, 1>>, x |-> <<2, 1, 1>>,
       sa |-> 2, sb |-> 1, sx |-> 2,
       cxb |-> Mat21(1, 1), cxa |-> Mat22(0, 0, 1, 0)],
      [coords |-> <<0, 1>>, a |-> <<2, 1, 2>>, b |-> <<2, 1, 2>>, x |-> <<2, 1, 2>>,
       sa |-> 2, sb |-> 2, sx |-> 2,
       cxb |-> Mat22(1, 0, 1, 1), cxa |-> Mat22(0, 1, 1, 0)],
      [coords |-> <<0, 0>>, a |-> <<2, 1, 1>>, b |-> <<1, 1, 1>>, x |-> <<2, 1, 2>>,
       sa |-> 2, sb |-> 1, sx |-> 2,
       cxb |-> Mat21(1, 1), cxa |-> Mat22(0, 0, 1, 0)]>>

GroupIds == DOMAIN Groups

\* group_iterator.get_board_size()
get_board_size == <<2, 2>>

\* loc_dtw on every unit the iterator can yield
LocDtwOf ==
    [id \in GroupIds, sym \in BOOLEAN |->
        loc_dtw(Groups[id], sym, Groups[id].cxb, Groups[id].cxa)]

\* loc_dtw(group, ...) on the unit the iterator yields at `index` (0-based)
EvalUnit(it, index, sym) == LocDtwOf[it[index + 1], sym]

(***************************************************************************)
(* worker(worker_rank, nprocess, group_iterator, ...): one iteration of    *)
(* its loop over enumerate(group_iterator).                                *)
(***************************************************************************)
\* the filter testing the 1-based position instead of the index
SkipsOffByOne(index, np, rank) == (index + 1) % np # rank

\* the filter of line 118: does worker `rank` skip `index`
Skips(index, np, rank) == index % np # rank

Ranks_(np) == 0..(np - 1)

WorkerStep(r) ==
    /\ jobs
    /\ r \in Ranks_(nprocess)
    /\ wstate[r] = "running"
    /\ wpos[r] < Len(group_iterator)
    /\ LET index == wpos[r]
       IN  IF Skips(index, nprocess, r)
           THEN /\ wpos' = [wpos EXCEPT ![r] = index + 1]
                /\ UNCHANGED <<wstate, worker_data, evaluated>>
           ELSE LET res == EvalUnit(group_iterator, index, symmetric)
                IN  /\ evaluated' = [evaluated EXCEPT ![r] = Append(@, index)]
                    /\ IF res.status # "ok"
                       THEN /\ wstate' = [wstate EXCEPT ![r] = "raised"]
                            /\ UNCHANGED <<wpos, worker_data>>
                       ELSE /\ worker_data' =
                                 [worker_data EXCEPT
                                     ![r] = Append(@, <<index, res.value>>)]
                            /\ wpos' = [wpos EXCEPT ![r] = index + 1]
                            /\ UNCHANGED wstate
    /\ UNCHANGED <<group_iterator, nprocess, symmetric, jobs, main_pc, next_job,
                   all_worker_data, coords_list, data_list, result>>
    /\ UNCHANGED fn_vars

\* return worker_data
WorkerReturn(r) ==
    /\ jobs
    /\ r \in Ranks_(nprocess)
    /\ wstate[r] = "running"
    /\ wpos[r] = Len(group_iterator)
    /\ wstate' = [wstate EXCEPT ![r] = "done"]
    /\ UNCHANGED <<group_iterator, nprocess, symmetric, jobs, wpos, worker_data,
                   evaluated, main_pc, next_job, all_worker_data, coords_list, data_list,
                   result>>
    /\ UNCHANGED fn_vars

(***************************************************************************)
(* get_abx_scores_dtw_on_group                                             *)
(***************************************************************************)
\* jobs = [p.submit(worker, worker_rank, ...) for worker_rank in range(nprocess)]
Submit ==
    /\ main_pc = "submit"
    /\ jobs' = TRUE
    /\ wstate' = [r \in Ranks_(nprocess) |-> "running"]
    /\ main_pc' = "collect"
    /\ UNCHANGED <<group_iterator, nprocess, symmetric, wpos, worker_data,
                   evaluated, next_job, all_worker_data, coords_list, data_list, result>>
    /\ UNCHANGED fn_vars

\* a result() that does not wait for the job
JobFinishedNoWait(r) == TRUE

\* j.result() blocks until the job has finished
JobFinished(r) == wstate[r] \in {"done", "raised"}

\* a result() that swallows the worker's exception
JobRaisedSwallowed(r) == FALSE

\* j.result() raises the exception the worker ended in
JobRaised(r) == wstate[r] = "raised"

\* all_worker_data = j.result()
MergeAssign(awd, wd) == wd

\* all_worker_data += j.result()
Merge(awd, wd) == awd \o wd

\* for j in jobs: all_worker_data += j.result()
Collect ==
    /\ main_pc = "collect"
    /\ next_job < nprocess
    /\ JobFinished(next_job)
    /\ IF JobRaised(next_job)
       THEN /\ main_pc' = "unwinding"
            /\ UNCHANGED <<next_job, all_worker_data>>
       ELSE /\ all_worker_data' = Merge(all_worker_data, worker_data[next_job])
            /\ next_job' = next_job + 1
            /\ UNCHANGED main_pc
    /\ UNCHANGED <<group_iterator, nprocess, symmetric, jobs, wpos, wstate,
                   worker_data, evaluated, coords_list, data_list, result>>
    /\ UNCHANGED fn_vars

\* list.sort() on (index, (coords, score)) tuples: the indices are distinct, so
\* the order is decided by the index
RECURSIVE Insert(_, _)
Insert(e, s) ==
    IF s = <<>> THEN <<e>>
    ELSE IF e[1] < Head(s)[1] THEN <<e>> \o s
    ELSE <<Head(s)>> \o Insert(e, Tail(s))

RECURSIVE SortByIndex(_)
SortByIndex(s) ==
    IF s = <<>> THEN <<>> ELSE Insert(Head(s), SortByIndex(Tail(s)))

\* the merged list left in job order
ListSortNoop(awd) == awd

\* list.sort()
ListSort(awd) == SortByIndex(awd)

\* all_worker_data.sort()
Sort ==
    /\ main_pc = "collect"
    /\ next_job = nprocess
    /\ all_worker_data' = ListSort(all_worker_data)
    /\ main_pc' = "assemble"
    /\ UNCHANGED <<group_iterator, nprocess, symmetric, jobs, wpos, wstate,
                   worker_data, evaluated, next_job, coords_list, data_list, result>>
    /\ UNCHANGED fn_vars

\* the coordinates taken from the other end of the list
CoordsOfReversed(awd) == [k \in 1..Len(awd) |-> awd[Len(awd) + 1 - k][2][1]]

\* coords_list.append(coords_abx[0])
CoordsOf(awd) == [k \in 1..Len(awd) |-> awd[k][2][1]]

\* data_list.append(coords_abx[1])
DataOf(awd) == [k \in 1..Len(awd) |-> awd[k][2][2]]

\* for _, coords_abx in all_worker_data: ...
Assemble ==
    /\ main_pc = "assemble"
    /\ coords_list' = coords_list \o CoordsOf(all_worker_data)
    /\ data_list' = data_list \o DataOf(all_worker_data)
    /\ main_pc' = "exit"
    /\ UNCHANGED <<group_iterator, nprocess, symmetric, jobs, wpos, wstate,
                   worker_data, evaluated, next_job, all_worker_data, result>>
    /\ UNCHANGED fn_vars

\* ProcessPoolExecutor.__exit__: shutdown(wait=True)
AllFinished == \A r \in Ranks_(nprocess) : JobFinished(r)

\* torch.LongTensor(coords_list).t(): row d holds coordinate d of every entry
Transpose(cl) ==
    IF cl = <<>> THEN <<>>
    ELSE [d \in 1..Len(cl[1]) |-> [k \in 1..Len(cl) |-> cl[k][d]]]

\* torch.sparse.FloatTensor(indices, values, size)
SparseFloatTensor(cl, dl, size) ==
    [kind |-> "sparse", indices |-> Transpose(cl), values |-> dl, size |-> size]

NoResult == [kind |-> "none"]

Return ==
    /\ main_pc = "exit"
    /\ AllFinished
    /\ result' = SparseFloatTensor(coords_list, data_list, get_board_size)
    /\ main_pc' = "returned"
    /\ UNCHANGED <<group_iterator, nprocess, symmetric, jobs, wpos, wstate,
                   worker_data, evaluated, next_job, all_worker_data, coords_list, data_list>>
    /\ UNCHANGED fn_vars

\* the exception of j.result() leaves the with block, which waits for the pool
Unwind ==
    /\ main_pc = "unwinding"
    /\ AllFinished
    /\ main_pc' = "failed"
    /\ UNCHANGED <<group_iterator, nprocess, symmetric, jobs, wpos, wstate,
                   worker_data, evaluated, next_job, all_worker_data, coords_list, data_list,
                   result>>
    /\ UNCHANGED fn_vars

RECURSIVE SeqsUpTo(_, _)
SeqsUpTo(S, n) ==
    IF n = 0 THEN {<<>>}
    ELSE LET shorter == SeqsUpTo(S, n - 1)
         IN  shorter \cup {Append(s, e) : s \in {t \in shorter : Len(t) = n - 1},
                                          e \in S}

NoArgs == [fn |-> "none"]

InitPool ==
    /\ group_iterator \in {s \in SeqsUpTo(GroupIds, MaxLen) : Len(s) >= 1}
    /\ nprocess \in 1..MaxProc
    /\ symmetric \in BOOLEAN
    /\ jobs = FALSE
    /\ wpos = [r \in Ranks_(nprocess) |-> 0]
    /\ wstate = [r \in Ranks_(nprocess) |-> "idle"]
    /\ worker_data = [r \in Ranks_(nprocess) |-> <<>>]
    /\ evaluated = [r \in Ranks_(nprocess) |-> <<>>]
    /\ main_pc = "submit"
    /\ next_job = 0
    /\ all_worker_data = <<>>
    /\ coords_list = <<>>
    /\ data_list = <<>>
    /\ result = NoResult
    /\ args = NoArgs
    /\ ret = NoArgs

MainNext == Submit \/ Collect \/ Sort \/ Assemble \/ Return \/ Unwind

WorkerNext(r) == WorkerStep(r) \/ WorkerReturn(r)

NextPool ==
    \/ Submit
    \/ Collect
    \/ Sort
    \/ Assemble
    \/ Return
    \/ Unwind
    \/ \E r \in 0..(MaxProc - 1) : WorkerStep(r)
    \/ \E r \in 0..(MaxProc - 1) : WorkerReturn(r)

(***************************************************************************)
(* The scorer functions called on their own, on every input of the bounds. *)
(***************************************************************************)
SizeLens(shape) == {shape[1], shape[1] + 1}

\* what the aligner can return for (a1, a2): a matrix of shape (N1, N2) when
\* get_distance_group_dtw reaches its call, nothing when it does not
AlignerReturns(reached, a1, a2, size1, size2) ==
    IF reached /\ Len(a1) = 3 /\ Len(a2) = 3 /\ size1 = a1[1] /\ size2 = a2[1]
    THEN Matrices(a1[1], a2[1])
    ELSE {NoMat}

Checked(g) == check_dtw_group_validity(g.a, g.b, g.x) = "ok"

InitFn ==
    /\ \E a \in Shapes(MaxN), b \in Shapes(MaxNb), x \in Shapes(MaxN) :
       \E sa \in SizeLens(a), sb \in SizeLens(b), sx \in SizeLens(x) :
       \E sym \in BOOLEAN :
          /\ x[1] * (a[1] + b[1]) <= MaxCells
          /\ args = [fn |-> "pending", coords |-> <<0, 1>>, a |-> a, b |-> b,
                  x |-> x, sa |-> sa, sb |-> sb, sx |-> sx, symmetric |-> sym]
    /\ ret = NoArgs
    /\ group_iterator = <<>>
    /\ nprocess = 1
    /\ symmetric = FALSE
    /\ jobs = FALSE
    /\ wpos = <<>>
    /\ wstate = <<>>
    /\ worker_data = <<>>
    /\ evaluated = <<>>
    /\ main_pc = "none"
    /\ next_job = 0
    /\ all_worker_data = <<>>
    /\ coords_list = <<>>
    /\ data_list = <<>>
    /\ result = NoResult

\* check_dtw_group_validity(a, b, x)
Call_check_dtw_group_validity ==
    /\ args.fn = "pending"
    /\ ret.fn = "none"
    /\ ret' = [fn |-> "check_dtw_group_validity",
               status |-> check_dtw_group_validity(args.a, args.b, args.x)]
    /\ UNCHANGED args
    /\ UNCHANGED pool_vars

\* get_distance_group_dtw(x, b, sx, sb)
Call_get_distance_group_dtw ==
    /\ args.fn = "pending"
    /\ ret.fn = "none"
    /\ \E cost \in AlignerReturns(TRUE, args.x, args.b, args.sx, args.sb) :
          LET r == get_distance_group_dtw(args.x, args.b, args.sx, args.sb,
                                          FALSE, FALSE, cost)
          IN  ret' = [fn |-> "get_distance_group_dtw", status |-> r.status,
                      trace |-> r.trace, mat |-> r.mat]
    /\ UNCHANGED args
    /\ UNCHANGED pool_vars

\* get_theta_group_dtw(a, b, x, sa, sb, sx, distance_function, symmetric)
Call_get_theta_group_dtw ==
    /\ args.fn = "pending"
    /\ ret.fn = "none"
    /\ \E cxb \in AlignerReturns(Checked(args), args.x, args.b, args.sx, args.sb),
          cxa \in AlignerReturns(Checked(args), args.x, args.a, args.sx, args.sa) :
          LET r == get_theta_group_dtw(args.a, args.b, args.x, args.sa, args.sb,
                                       args.sx, args.symmetric, cxb, cxa)
          IN  ret' = [fn |-> "get_theta_group_dtw", status |-> r.status,
                      trace |-> r.trace, theta |-> r.theta,
                      dxa |-> r.dxa, dxb |-> r.dxb,
                      aligned |-> IF r.status = "ok" THEN cxa ELSE NoMat]
    /\ UNCHANGED args
    /\ UNCHANGED pool_vars

NextFn ==
    \/ Call_check_dtw_group_validity
    \/ Call_get_distance_group_dtw
    \/ Call_get_theta_group_dtw

(***************************************************************************)
(* The specification: a run of get_abx_scores_dtw_on_group on a group      *)
(* sequence, or one call of a scorer function.                             *)
(***************************************************************************)
Init == InitPool \/ InitFn

Next == NextPool \/ NextFn

Spec == Init /\ [][Next]_vars

\* a run of get_abx_scores_dtw_on_group in which every process of the pool,
\* and the caller, is scheduled by the OS
FairSpec ==
    /\ InitPool
    /\ [][NextPool]_vars
    /\ WF_vars(MainNext)
    /\ \A r \in 0..(MaxProc - 1) : WF_vars(WorkerNext(r))

(***************************************************************************)
(* Properties                                                              *)
(***************************************************************************)
InPool == main_pc # "none"

Length == Len(group_iterator)

AllDone == InPool /\ \A r \in DOMAIN wstate : wstate[r] = "done"

Past(pcs) == main_pc \in pcs

\* the unit the iterator yields at `index` (0-based)
UnitAt(index) == Groups[group_iterator[index + 1]]

\* theta of every unit the iterator can yield, as get_theta_group_dtw computes it
ThetaOf ==
    [id \in GroupIds, sym \in BOOLEAN |->
        LET g == Groups[id]
        IN  get_theta_group_dtw(g.a, g.b, g.x, g.sa, g.sb, g.sx, sym,
                                g.cxb, g.cxa)]

ThetaAt(index) == ThetaOf[group_iterator[index + 1], symmetric]

UnitRaises(index) == ThetaAt(index).status # "ok"

SomeUnitRaises == \E i \in 0..(Length - 1) : UnitRaises(i)

\* C1: worker r evaluates index i iff i % nprocess = r: every worker calls
\* loc_dtw only on indices of its own residue class, on none twice, and once it
\* has returned on all of them; when all workers have returned every index
\* 0..L-1 has been evaluated exactly once over all workers.
C1_RoundRobinPartition ==
    InPool =>
      /\ \A r \in DOMAIN evaluated :
           /\ \A k \in 1..Len(evaluated[r]) :
                /\ evaluated[r][k] \in 0..(Length - 1)
                /\ evaluated[r][k] % nprocess = r
           /\ \A k1, k2 \in 1..Len(evaluated[r]) :
                k1 < k2 => evaluated[r][k1] < evaluated[r][k2]
           /\ wstate[r] = "done" =>
                {evaluated[r][k] : k \in 1..Len(evaluated[r])}
                   = {i \in 0..(Length - 1) : i % nprocess = r}
      /\ AllDone =>
           \A i \in 0..(Length - 1) :
              Cardinality({rk \in (DOMAIN evaluated) \X (1..Length) :
                              /\ rk[2] <= Len(evaluated[rk[1]])
                              /\ evaluated[rk[1]][rk[2]] = i}) = 1

\* more workers than units, all returned
C1_Witness == AllDone /\ Length = 2 /\ nprocess > Length

\* C2: the merged list handed to the assembler is in strictly increasing index
\* order, and the coordinate list and the score list built from it are
\* functions of the input sequence alone.
C2_MergedInIndexOrder ==
    /\ Past({"assemble", "exit", "returned"}) =>
         \A k \in 1..(Len(all_worker_data) - 1) :
            all_worker_data[k][1] < all_worker_data[k + 1][1]
    /\ Past({"exit", "returned"}) =>
         /\ coords_list = [k \in 1..Length |-> UnitAt(k - 1).coords]
         /\ data_list = [k \in 1..Length |-> Complement(ThetaAt(k - 1).theta)]

\* two workers over three units: the jobs return indices 0, 2 and then 1
C2_Witness == main_pc = "assemble" /\ nprocess = 2 /\ Length = 3

\* the run with nprocess = 1: worker 0 evaluates every index in order
RECURSIVE SequentialData(_)
SequentialData(i) ==
    IF i >= Length THEN <<>>
    ELSE <<<<i, EvalUnit(group_iterator, i, symmetric).value>>>>
            \o SequentialData(i + 1)

SequentialResult ==
    SparseFloatTensor(CoordsOf(SequentialData(0)), DataOf(SequentialData(0)),
                      get_board_size)

\* C3: a run with any nprocess returns what the sequential run (nprocess = 1)
\* returns, coordinates, scores and shape, and fails only if that one fails.
C3_SameAsSequential ==
    /\ main_pc = "returned" => ~SomeUnitRaises /\ result = SequentialResult
    /\ main_pc = "failed" => SomeUnitRaises

C3_Witness == main_pc = "returned" /\ nprocess = 3 /\ Length = 3

SomeWorkerRaised == InPool /\ \E r \in DOMAIN wstate : wstate[r] = "raised"

\* how far the caller is from the end of the call
PcRank ==
    [pc \in {"submit", "collect", "assemble", "exit", "unwinding", "returned",
             "failed"} |->
        IF pc = "submit" THEN 5 ELSE IF pc = "collect" THEN 4
        ELSE IF pc = "assemble" THEN 3 ELSE IF pc = "exit" THEN 2
        ELSE IF pc = "unwinding" THEN 1 ELSE 0]

\* the iterations worker r has left, and its return
WorkerRank(r) ==
    IF wstate[r] \in {"done", "raised"} THEN 0 ELSE Length - wpos[r] + 1

RECURSIVE SumRanks(_)
SumRanks(n) == IF n = 0 THEN 0 ELSE WorkerRank(n - 1) + SumRanks(n - 1)

\* the steps the run has left at most
Measure == PcRank[main_pc] + (nprocess - next_job) + SumRanks(nprocess)

\* every step of a run brings it closer to its end: no run goes on for ever
StepDecreases == InPool => (Measure' < Measure /\ Measure' >= 0)

\* C4: once the evaluation of a unit has raised in a worker, the call has not
\* returned and has no sparse structure, and the only state in which the run
\* can stop is the failure of the call; every step brings the run closer to
\* its end, so under fair scheduling the call ends in failure.
C4_AfterRaise ==
    SomeWorkerRaised =>
      /\ main_pc # "returned"
      /\ result = NoResult
      /\ (main_pc = "failed" \/ ENABLED NextPool)

C4_WorkerFailureFailsRun ==
    /\ C4_AfterRaise
    /\ [][C4_AfterRaise' /\ StepDecreases]_vars

\* the run has failed although another worker returned results
C4_Witness ==
    /\ main_pc = "failed"
    /\ \E r \in DOMAIN wstate : wstate[r] = "done" /\ worker_data[r] # <<>>

\* C5: the returned structure has the board size as its shape and one entry
\* per yielded unit: the entry of unit k has the coordinates of unit k and
\* 1 - theta of unit k.
C5_EntriesAreTheUnits ==
    main_pc = "returned" =>
      /\ result.kind = "sparse"
      /\ result.size = get_board_size
      /\ Len(result.values) = Length
      /\ \A d \in DOMAIN result.indices : Len(result.indices[d]) = Length
      /\ \A k \in 1..Length :
           /\ [d \in DOMAIN result.indices |-> result.indices[d][k]]
                 = UnitAt(k - 1).coords
           /\ result.values[k].den = ThetaAt(k - 1).theta.den
           /\ result.values[k].num
                 = ThetaAt(k - 1).theta.den - ThetaAt(k - 1).theta.num

\* two different units, returned
C5_Witness ==
    /\ main_pc = "returned"
    /\ Length >= 2
    /\ group_iterator[1] # group_iterator[2]

ThetaCalled == ret.fn = "get_theta_group_dtw"

SizesAgree(g) == g.sa = g.a[1] /\ g.sb = g.b[1] /\ g.sx = g.x[1]

\* C6: for every triplet that passes the precondition check (and whose size
\* vectors match their batches) get_theta_group_dtw returns a score in [0, 1].
C6_ThetaInUnitInterval ==
    (ThetaCalled /\ Checked(args) /\ SizesAgree(args)) =>
      /\ ret.status = "ok"
      /\ ret.theta.den > 0
      /\ 0 <= ret.theta.num
      /\ ret.theta.num <= ret.theta.den

OffDiagonal(Nx, Na, Nb) ==
    {t \in (1..Nx) \X (1..Na) \X (1..Nb) : t[1] # t[2]}

\* C7: symmetric with Na = Nx: every self-pair entry dxa[i, i] is strictly
\* greater than every dxb[i, k], and the numerator of the score counts wins and
\* ties of the entries with X-index different from A-index only.
C7_DiagonalNeverCounts ==
    (ThetaCalled /\ ret.status = "ok" /\ args.symmetric /\ args.a[1] = args.x[1]) =>
      LET Na == args.a[1]
          Nb == args.b[1]
          off == OffDiagonal(Na, Na, Nb)
      IN  /\ \A i \in 1..Na, k \in 1..Nb :
                ret.dxa[<<i, i>>] > ret.dxb[<<i, k>>]
          /\ ret.theta.num =
                2 * Cardinality({t \in off :
                        ret.dxa[<<t[1], t[2]>>] < ret.dxb[<<t[1], t[3]>>]})
                + Cardinality({t \in off :
                        ret.dxa[<<t[1], t[2]>>] = ret.dxb[<<t[1], t[3]>>]})

\* the aligner reported a self-pair cost below a cost to B
C7_Witness ==
    /\ ThetaCalled /\ ret.status = "ok" /\ args.symmetric
    /\ args.a[1] = 2 /\ args.x[1] = 2 /\ args.b[1] = 2
    /\ ret.aligned[<<1, 1>>] = 0
    /\ ret.dxb[<<1, 2>>] = 1

\* the ranks, or the feature dimensions, of A, B and X do not all agree
Mismatch(g) ==
    \/ Len(g.a) # Len(g.b)
    \/ Len(g.a) # Len(g.x)
    \/ /\ Len(g.a) = 3
       /\ (g.a[3] # g.b[3] \/ g.a[3] # g.x[3])

\* C8: on a mismatch of rank or feature dimension the check fails with an
\* assertion error, get_theta_group_dtw fails with it before any diagnostic,
\* distance function or aligner call, and a pool run in which a worker
\* evaluated such a unit returns nothing.
C8_MismatchFailsInCheck ==
    /\ (ret.fn = "check_dtw_group_validity" /\ Mismatch(args)) =>
          ret.status = "AssertionError"
    /\ (ThetaCalled /\ Mismatch(args)) =>
          ret.status = "AssertionError" /\ ret.trace = <<>>
    /\ InPool =>
          \A r \in DOMAIN evaluated : \A k \in 1..Len(evaluated[r]) :
             Mismatch(UnitAt(evaluated[r][k])) =>
                /\ wstate[r] = "raised"
                /\ main_pc # "returned"
                /\ result = NoResult

\* X has another feature dimension than A and B
C8_Witness ==
    /\ ThetaCalled
    /\ Len(args.a) = 3 /\ Len(args.b) = 3 /\ Len(args.x) = 3
    /\ args.a[3] = args.b[3] /\ args.a[3] # args.x[3]
    /\ ret.status = "AssertionError"

PrintBeforeAssert(tr) ==
    \E i, j \in DOMAIN tr : i < j /\ tr[i] = "print" /\ tr[j] = "assert"

\* C9: in get_distance_group_dtw(x, b, sx, sb), when sx or sb disagrees with
\* its batch, a diagnostic is printed before the assertion fails and neither
\* the distance function nor the aligner is called.
C9_DiagnosticBeforeAssertion ==
    (/\ ret.fn = "get_distance_group_dtw"
     /\ Len(args.x) = 3 /\ Len(args.b) = 3
     /\ (args.sx # args.x[1] \/ args.sb # args.b[1])) =>
      /\ ret.status = "AssertionError"
      /\ PrintBeforeAssert(ret.trace)
      /\ \A i \in DOMAIN ret.trace :
            ret.trace[i] \notin {"distance_function", "dtw_batch"}

\* C10: the merged list is sorted and the structure assembled and returned
\* only when every submitted worker has returned; a run in which no unit
\* raises can stop only with the call returned, and every step brings a run
\* closer to its end, so under fair scheduling such a call returns; while a
\* worker has not returned the call has not returned.
C10_State ==
    /\ Past({"assemble", "exit", "returned"}) => AllDone
    /\ (InPool /\ ~SomeUnitRaises) => (main_pc = "returned" \/ ENABLED NextPool)

C10_FanInWaitsForAll ==
    /\ C10_State
    /\ [][C10_State' /\ StepDecreases]_vars

C10_Witness == main_pc = "returned" /\ nprocess >= 2 /\ Length >= 2

====
